---- MODULE Spec2Model ----
(***************************************************************************)
(* A model of app.py, the Flask backend of the climate story application.  *)
(*                                                                         *)
(* Two specifications share the variables:                                 *)
(*   SpecStartup  the execution of the module body, statement by statement *)
(*                (lines 2-162), from any process environment;             *)
(*   Spec         the three view functions (get_cities, search_city,       *)
(*                get_weather) as they run once the application serves,    *)
(*                with the two credential globals holding any value that   *)
(*                os.getenv can produce.                                   *)
(* SpecStartup ends in proc = "crashed" at line 20 for every environment   *)
(* (see C7): Spec therefore starts from the state the module body is meant *)
(* to reach, and checks the view functions as written.                     *)
(* The collaborators (geocoder, timezone finder, pytz, forecast provider)  *)
(* are the environment: each call draws its outcome from a small set.      *)
(***************************************************************************)
EXTENDS Integers, Sequences, FiniteSets, TLC

VARIABLES
    proc,        \* "importing" | "crashed" | "serving"
    pc,          \* line of the module-level statement to execute next
    raised,      \* the exception that ended the module body, or NoException
    environ,     \* the process environment (the two credential variables)
    username,    \* module global, line 20
    password,    \* module global, line 21
    now,         \* the wall clock, UTC
    request,     \* the request being answered, or NoRequest
    response,    \* the response to it, or NoResponse
    fetches,     \* the calls of api.query_time_series made for the request
    provided,    \* what the provider answered (a table or an exception)
    tzLookups,   \* the coordinates passed to tf.timezone_at for the request
    tzFound,     \* what tf.timezone_at returned
    local_tz,    \* the zone object the timestamps were converted with
    geocodes     \* the queries passed to geolocator.geocode for the request

vars == <<proc, pc, raised, environ, username, password, now, request,
          response, fetches, provided, tzLookups, tzFound, local_tz, geocodes>>

startupVars == <<proc, pc, raised, environ, username, password>>
requestVars == <<request, response, fetches, provided, tzLookups, tzFound,
                 local_tz, geocodes>>

----------------------------------------------------------------------------
(* Python values                                                           *)

\* None, where a string is expected (request.args.get, os.getenv, timezone_at)
None == "<None>"

\* a name that is not bound yet
Unbound == "<unbound>"

\* Python truthiness of an optional string: None and "" are falsy
Truthy(s) == s \notin {None, ""}

NoException == [type |-> "", message |-> ""]

----------------------------------------------------------------------------
(* Module-level data, lines 24-38                                          *)

\* a coordinate is a (lat, lon) tuple, in millionths of a degree
Coord(lat, lon) == <<lat, lon>>

\* line 24-29 (Bloomington's longitude -86.52638569999999 to six decimals)
cities ==
    [c \in {"Bloomington", "Chicago", "New York", "Los Angeles"} |->
        CASE c = "Bloomington" -> Coord(39165325, -86526386)
          [] c = "Chicago"     -> Coord(41878100, -87629800)
          [] c = "New York"    -> Coord(40712800, -74006000)
          [] c = "Los Angeles" -> Coord(34052200, -118243700)]

\* list(cities.keys()): a dict keeps its insertion order
cityKeys == <<"Bloomington", "Chicago", "New York", "Los Angeles">>

\* line 32-38
parameters ==
    <<"t_2m:C", "precip_1h:mm", "wind_speed_10m:ms", "relative_humidity_2m:p",
      "uv:idx">>

----------------------------------------------------------------------------
(* Startup: the module body                                                *)

\* the module-level statements, by line, in execution order
ModuleBody ==
    <<2, 3, 4, 5, 6, 7, 8, 9, 10, 11, 12, 15, 17, 18, 20, 21, 24, 32, 40, 41,
      43, 48, 68, 161>>

FirstStatement == ModuleBody[1]
LastStatement == ModuleBody[Len(ModuleBody)]

NextStatement(line) ==
    LET i == CHOOSE k \in 1..Len(ModuleBody) : ModuleBody[k] = line
    IN  IF i < Len(ModuleBody) THEN ModuleBody[i + 1] ELSE line

\* what the environment may hold for each variable (None: not set)
EnvUsernames == {None, "demo_user", "nobody"}
EnvPasswords == {None, "s3cret", "wrong"}

\* os.getenv(key): the value, or None when the variable is not set
os_getenv(key) == environ[key]

\* the attributes a Python function object such as os.getenv has
FunctionAttributes ==
    {"__call__", "__name__", "__qualname__", "__doc__", "__module__",
     "__defaults__", "__code__", "__dict__"}

\* line 20, 21: os.getenv.getenv(key) looks the attribute getenv up on the
\* function os.getenv before anything is called
os_getenv_getenv(key) ==
    IF "getenv" \in FunctionAttributes
      THEN [ok |-> TRUE, value |-> os_getenv(key), exc |-> NoException]
      ELSE [ok |-> FALSE, value |-> Unbound,
            exc |-> [type |-> "AttributeError",
                     message |-> "'function' object has no attribute 'getenv'"]]

----------------------------------------------------------------------------
(* The clock and the forecast window, lines 92-94                          *)

Datetime(d, h, m, s, us) ==
    [day |-> d, hour |-> h, minute |-> m, second |-> s, microsecond |-> us]

Timedelta(d, s) == [days |-> d, seconds |-> s]

\* the instants at which the clock is read
ClockSamples ==
    { Datetime(0, 0, 0, 0, 0), Datetime(0, 13, 37, 0, 5),
      Datetime(0, 23, 59, 59, 999999), Datetime(1, 7, 0, 42, 0) }

\* seconds since the start of day 0
Seconds(t) == ((t.day * 24 + t.hour) * 60 + t.minute) * 60 + t.second

Before(a, b) ==
    \/ Seconds(a) < Seconds(b)
    \/ Seconds(a) = Seconds(b) /\ a.microsecond < b.microsecond

\* datetime + timedelta
DatetimePlus(t, td) ==
    LET total == Seconds(t) + td.days * 86400 + td.seconds
    IN  Datetime(total \div 86400, (total % 86400) \div 3600,
                 (total % 3600) \div 60, total % 60, t.microsecond)

\* a truncation that forgets the seconds
startdate_KeepsSeconds(t) == [t EXCEPT !.minute = 0, !.microsecond = 0]

\* line 92: now(utc).replace(minute=0, second=0, microsecond=0)
startdate(t) == [t EXCEPT !.minute = 0, !.second = 0, !.microsecond = 0]

\* line 93
enddate(t) == DatetimePlus(startdate(t), Timedelta(1, 0))

\* line 94
interval == Timedelta(0, 3600)

----------------------------------------------------------------------------
(* Input resolution, lines 76-90                                           *)

\* the strings float() accepts, with their values in millionths
FloatTable ==
    [s \in {"41.5", "95", "-87.5", "200"} |->
        CASE s = "41.5"  -> 41500000
          [] s = "95"    -> 95000000
          [] s = "-87.5" -> -87500000
          [] s = "200"   -> 200000000]

\* float(s) raises ValueError unless s is a numeric string
IsFloat(s) == s \in DOMAIN FloatTable
float(s) == FloatTable[s]

\* line 77, 121: cities.get(city, cities['Bloomington'])
resolveByCity(city) ==
    IF city \in DOMAIN cities THEN cities[city] ELSE cities["Bloomington"]

\* a parse that stores the two numbers in the wrong order
resolveByCoordinates_Swapped(lat, lon) ==
    IF IsFloat(lat) /\ IsFloat(lon)
      THEN [ok |-> TRUE, coordinates |-> <<Coord(float(lon), float(lat))>>]
      ELSE [ok |-> FALSE, coordinates |-> <<>>]

\* line 80-87: the try block of the coordinate branch
resolveByCoordinates(lat, lon) ==
    IF IsFloat(lat) /\ IsFloat(lon)
      THEN [ok |-> TRUE, coordinates |-> <<Coord(float(lat), float(lon))>>]
      ELSE [ok |-> FALSE, coordinates |-> <<>>]

\* a resolution that tries lat and lon before the city
ResolveInput_CoordinatesFirst(city, lat, lon) ==
    IF Truthy(lat) /\ Truthy(lon)
      THEN LET r == resolveByCoordinates(lat, lon)
           IN  IF r.ok
                 THEN [ok |-> TRUE, coordinates |-> r.coordinates,
                       status |-> 0, error |-> ""]
                 ELSE [ok |-> FALSE, coordinates |-> <<>>, status |-> 400,
                       error |-> "Invalid latitude or longitude"]
    ELSE IF Truthy(city)
      THEN [ok |-> TRUE, coordinates |-> <<resolveByCity(city)>>,
            status |-> 0, error |-> ""]
    ELSE [ok |-> FALSE, coordinates |-> <<>>, status |-> 400,
          error |-> "City or coordinates required"]

\* line 76-90: the coordinates list, or the 400 response
ResolveInput(city, lat, lon) ==
    IF Truthy(city)
      THEN [ok |-> TRUE, coordinates |-> <<resolveByCity(city)>>,
            status |-> 0, error |-> ""]
    ELSE IF Truthy(lat) /\ Truthy(lon)
      THEN LET r == resolveByCoordinates(lat, lon)
           IN  IF r.ok
                 THEN [ok |-> TRUE, coordinates |-> r.coordinates,
                       status |-> 0, error |-> ""]
                 ELSE [ok |-> FALSE, coordinates |-> <<>>, status |-> 400,
                       error |-> "Invalid latitude or longitude"]
    ELSE [ok |-> FALSE, coordinates |-> <<>>, status |-> 400,
          error |-> "City or coordinates required"]

\* a second registry lookup that falls back to another city
TimezoneCoord_OtherDefault(city, coordinates) ==
    IF Truthy(city)
      THEN IF city \in DOMAIN cities THEN cities[city] ELSE cities["Chicago"]
      ELSE coordinates[1]

\* line 120-123: the coordinate whose timezone is looked up
TimezoneCoord(city, coordinates) ==
    IF Truthy(city) THEN resolveByCity(city) ELSE coordinates[1]

----------------------------------------------------------------------------
(* The forecast provider, lines 99-117                                     *)

\* a value of a row's timestamp cell: None, a str or a pandas Timestamp.
\* A str is empty, unparsable ("garbage") or ISO-8601 ("iso"): wall is the
\* hours since 0001-01-01T00:00 (datetime.min) and off the offset suffix.
PyNone == [type |-> "NoneType", form |-> "", wall |-> 0, off |-> ""]
Str(form, wall, off) == [type |-> "str", form |-> form, wall |-> wall, off |-> off]
TimestampObj(wall) == [type |-> "Timestamp", form |-> "", wall |-> wall, off |-> "+00:00"]

\* truthiness of a timestamp cell, line 139
TruthyCell(v) == ~(v.type = "NoneType" \/ (v.type = "str" /\ v.form = "empty"))

\* the rows a provider table is made of: the index cell and one parameter
RowSamples ==
    { [idx |-> Str("empty", 0, ""),        t_2m |-> 11],
      [idx |-> Str("garbage", 0, ""),      t_2m |-> 12],
      [idx |-> Str("iso", 0, ""),          t_2m |-> 13],
      [idx |-> Str("iso", 12, ""),         t_2m |-> 14],
      [idx |-> Str("iso", 12, "+02:00"),   t_2m |-> 15],
      [idx |-> TimestampObj(12),           t_2m |-> 16] }

\* the longest table the provider returns
MaxRows == 2

\* a DataFrame: the name of its index and its rows
DataFrames ==
    { [index |-> n, rows |-> r] :
        n \in {"validdate", "index"},
        r \in UNION { [1..k -> RowSamples] : k \in 0..MaxRows } }

\* the accounts the provider accepts
ValidCredentials(u, p) == u = "demo_user" /\ p = "s3cret"

Exception(type, message) == [type |-> type, message |-> message]

\* api.query_time_series(...): a DataFrame, or any exception
ProviderOutcomes(u, p) ==
    { [ok |-> FALSE, df |-> [index |-> "", rows |-> <<>>],
       exc |-> Exception("ConnectionError", "Connection timed out")] }
    \cup
    IF ValidCredentials(u, p)
      THEN { [ok |-> TRUE, df |-> d, exc |-> NoException] : d \in DataFrames }
      ELSE { [ok |-> FALSE, df |-> [index |-> "", rows |-> <<>>],
              exc |-> Exception("Unauthorized", "401 Unauthorized")] }

\* str(e)
str(e) == e.message

\* line 115-117: reset_index makes the index a column named after it, and
\* to_dict(orient='records') gives one dict per row
ToRecords(df) ==
    [i \in 1..Len(df.rows) |->
        (df.index :> df.rows[i].idx) @@ ("t_2m" :> df.rows[i].t_2m)]

----------------------------------------------------------------------------
(* Timezone resolution, lines 126-135                                      *)

\* what tf.timezone_at may return for a coordinate
TzLookupResults ==
    {None, "America/Chicago", "America/Indiana/Indianapolis", "Mars/Olympus_Mons"}

\* the zones pytz knows, with their UTC offset in hours
ZoneOffset ==
    [z \in {"UTC", "America/Chicago", "America/Indiana/Indianapolis"} |->
        CASE z = "UTC" -> 0
          [] z = "America/Chicago" -> -6
          [] z = "America/Indiana/Indianapolis" -> -5]

OffsetText ==
    [h \in {0, -5, -6} |->
        CASE h = 0 -> "+00:00" [] h = -5 -> "-05:00" [] h = -6 -> "-06:00"]

\* line 127-129
timezone_str(found) == IF ~Truthy(found) THEN "UTC" ELSE found

\* line 131-135: pytz.timezone(name), pytz.UTC on UnknownTimeZoneError
LocalTz(name) == IF name \in DOMAIN ZoneOffset THEN name ELSE "UTC"

----------------------------------------------------------------------------
(* Timestamp localization, lines 138-150                                   *)

\* line 141: datetime.fromisoformat, TypeError unless a str, ValueError
\* unless ISO-8601
CanParse(v) == v.type = "str" /\ v.form = "iso"

\* line 142: replace(tzinfo=utc) keeps the wall time and drops any offset
\* line 143: astimezone adds the zone's offset, OverflowError below
\* datetime.min
LocalWall(v, tz) == v.wall + ZoneOffset[tz]

CanConvert(v, tz) == CanParse(v) /\ LocalWall(v, tz) >= 0

\* line 144: isoformat()
Localized(v, tz) == Str("iso", LocalWall(v, tz), OffsetText[ZoneOffset[tz]])

\* entry['validdate'] = value
SetValiddate(entry, value) ==
    [f \in DOMAIN entry \cup {"validdate"} |->
        IF f = "validdate" THEN value ELSE entry[f]]

\* line 139-150: the body of the loop
LocalizeEntry(entry, tz) ==
    IF "validdate" \in DOMAIN entry /\ TruthyCell(entry["validdate"])
      THEN IF CanConvert(entry["validdate"], tz)
             THEN SetValiddate(entry, Localized(entry["validdate"], tz))
             ELSE SetValiddate(entry, PyNone)
      ELSE SetValiddate(entry, PyNone)

RECURSIVE LocalizeFrom_AbortOnFailure(_, _, _)
\* a loop that gives up at the first entry it cannot convert
LocalizeFrom_AbortOnFailure(data, tz, i) ==
    IF i > Len(data)
      THEN data
      ELSE LET e == LocalizeEntry(data[i], tz)
           IN  IF e["validdate"] = PyNone
                 THEN [k \in 1..Len(data) |->
                         IF k < i THEN data[k] ELSE SetValiddate(data[k], PyNone)]
                 ELSE LocalizeFrom_AbortOnFailure([data EXCEPT ![i] = e], tz, i + 1)

RECURSIVE LocalizeFrom(_, _, _)
\* line 138: the loop over weather_data, from entry i on
LocalizeFrom(data, tz, i) ==
    IF i > Len(data)
      THEN data
      ELSE LocalizeFrom([data EXCEPT ![i] = LocalizeEntry(data[i], tz)], tz, i + 1)

----------------------------------------------------------------------------
(* The geocoder, line 53                                                   *)

Location(address, lat, lon) ==
    [found |-> TRUE, address |-> address, latitude |-> lat, longitude |-> lon]

NoLocation == [found |-> FALSE, address |-> "", latitude |-> 0, longitude |-> 0]

\* the q parameter ('' when it is not given)
Queries == {"", "Chicago", "Xyzzy"}

\* geolocator.geocode(query): a Location, None, or one of geopy's exceptions
GeocodeOutcomes(query) ==
    { [exc |-> Exception(t, "geocoder failure"), location |-> NoLocation] :
        t \in {"GeocoderTimedOut", "GeocoderUnavailable", "GeocoderServiceError"} }
    \cup { [exc |-> NoException, location |-> NoLocation] }
    \cup IF query = "Chicago"
           THEN { [exc |-> NoException,
                   location |-> Location("Chicago, Cook County, Illinois",
                                         41875562, -87624421)] }
           ELSE {}

\* line 64: the exceptions search_city catches
CaughtBySearch == {"GeocoderTimedOut", "GeocoderUnavailable"}

----------------------------------------------------------------------------
(* Requests and responses                                                  *)

Request(route, city, lat, lon, q) ==
    [route |-> route, city |-> city, lat |-> lat, lon |-> lon, q |-> q]

NoRequest == Request("", None, None, None, None)

\* what request.args.get gives for city, lat and lon
CityArgs == {None, "", "Chicago", "Atlantis"}
LatArgs == {None, "", "abc", "41.5", "95"}
LonArgs == {None, "abc", "-87.5", "200"}

\* a response: its status and its body. kind tells the body's shape:
\*   "error"     jsonify({'error': error})
\*   "weather"   jsonify({'weather_data': ..., 'timezone': ...})
\*   "cities"    jsonify([names])
\*   "location"  jsonify({'name': ..., 'lat': ..., 'lon': ...})
\*   "unhandled" no body of the view: an exception left the view function
Response(status, kind, error, weather_data, timezone, names, place) ==
    [status |-> status, kind |-> kind, error |-> error,
     weather_data |-> weather_data, timezone |-> timezone, names |-> names,
     place |-> place]

NoResponse == Response(0, "", "", <<>>, "", <<>>, NoLocation)

\* jsonify({'error': message}), status
ErrorResponse(status, message) ==
    Response(status, "error", message, <<>>, "", <<>>, NoLocation)

\* line 153-156
WeatherResponse(weather_data, timezone) ==
    Response(200, "weather", "", weather_data, timezone, <<>>, NoLocation)

\* a handler that hides the upstream text
HandleProviderError_Sanitized(e) == ErrorResponse(500, "Internal server error")

\* line 110-112: except Exception as e
HandleProviderError(e) == ErrorResponse(500, str(e))

\* line 99-108: the arguments of api.query_time_series
FetchCall(coordinates, t) ==
    [coordinates |-> coordinates, startdate |-> startdate(t),
     enddate |-> enddate(t), interval |-> interval, parameters |-> parameters,
     username |-> username, password |-> password, model |-> "mix"]

NoOutcome == [ok |-> FALSE, df |-> [index |-> "", rows |-> <<>>], exc |-> NoException]

----------------------------------------------------------------------------
(* Initial states                                                          *)

Environments ==
    [METEOMATICS_USERNAME : EnvUsernames, METEOMATICS_PASSWORD : EnvPasswords]

Idle ==
    /\ request = NoRequest
    /\ response = NoResponse
    /\ fetches = <<>>
    /\ provided = NoOutcome
    /\ tzLookups = <<>>
    /\ tzFound = Unbound
    /\ local_tz = Unbound
    /\ geocodes = <<>>

\* the interpreter starts executing the module body
InitStartup ==
    /\ proc = "importing"
    /\ pc = FirstStatement
    /\ raised = NoException
    /\ environ \in Environments
    /\ username = Unbound
    /\ password = Unbound
    /\ now = Datetime(0, 0, 0, 0, 0)
    /\ Idle

\* the application serves: the module body has run, the globals are bound
Init ==
    /\ proc = "serving"
    /\ pc = LastStatement
    /\ raised = NoException
    /\ environ \in Environments
    /\ username = os_getenv("METEOMATICS_USERNAME")
    /\ password = os_getenv("METEOMATICS_PASSWORD")
    /\ now \in ClockSamples
    /\ Idle

----------------------------------------------------------------------------
(* Actions                                                                 *)

\* one module-level statement, lines 2-162
ExecStatement ==
    /\ proc = "importing"
    /\ LET key == IF pc = 20 THEN "METEOMATICS_USERNAME" ELSE "METEOMATICS_PASSWORD"
           got == os_getenv_getenv(key)
       IN  IF pc \in {20, 21}
             THEN IF got.ok
                    THEN /\ username' = IF pc = 20 THEN got.value ELSE username
                         /\ password' = IF pc = 21 THEN got.value ELSE password
                         /\ pc' = NextStatement(pc)
                         /\ UNCHANGED <<proc, raised>>
                    ELSE /\ proc' = "crashed"
                         /\ raised' = got.exc
                         /\ UNCHANGED <<pc, username, password>>
           ELSE IF pc = LastStatement
             THEN /\ proc' = "serving"
                  /\ UNCHANGED <<pc, raised, username, password>>
           ELSE /\ pc' = NextStatement(pc)
                /\ UNCHANGED <<proc, raised, username, password>>
    /\ UNCHANGED <<environ, now>>
    /\ UNCHANGED requestVars

\* GET /cities, line 43-46
GetCities ==
    /\ proc = "serving"
    /\ request = NoRequest
    /\ request' = Request("/cities", None, None, None, None)
    /\ response' = Response(200, "cities", "", <<>>, "", cityKeys, NoLocation)
    /\ UNCHANGED <<fetches, provided, tzLookups, tzFound, local_tz, geocodes>>
    /\ UNCHANGED <<now>>
    /\ UNCHANGED startupVars

\* line 52-66: what search_city answers to the outcome of geocode
SearchResponse(out) ==
    IF out.exc # NoException
      THEN IF out.exc.type \in CaughtBySearch
             THEN ErrorResponse(503, "Geocoding service unavailable")
             ELSE Response(500, "unhandled", "", <<>>, "", <<>>, NoLocation)
    ELSE IF out.location.found
      THEN Response(200, "location", "", <<>>, "", <<>>, out.location)
    ELSE ErrorResponse(404, "City not found")

\* GET /search, line 48-66
SearchCity ==
    /\ proc = "serving"
    /\ request = NoRequest
    /\ \E query \in Queries :
         \E out \in GeocodeOutcomes(query) :
            /\ request' = Request("/search", None, None, None, query)
            /\ geocodes' = <<query>>
            /\ response' = SearchResponse(out)
    /\ UNCHANGED <<fetches, provided, tzLookups, tzFound, local_tz>>
    /\ UNCHANGED <<now>>
    /\ UNCHANGED startupVars

\* GET /weather, line 68-156
GetWeather ==
    /\ proc = "serving"
    /\ request = NoRequest
    /\ \E city \in CityArgs, lat \in LatArgs, lon \in LonArgs :
         LET r == ResolveInput(city, lat, lon)
         IN  /\ request' = Request("/weather", city, lat, lon, None)
             /\ IF ~r.ok
                  THEN /\ response' = ErrorResponse(r.status, r.error)
                       /\ UNCHANGED <<fetches, provided, tzLookups, tzFound, local_tz>>
                  ELSE \E out \in ProviderOutcomes(username, password) :
                         /\ fetches' = <<FetchCall(r.coordinates, now)>>
                         /\ provided' = out
                         /\ IF ~out.ok
                              THEN /\ response' = HandleProviderError(out.exc)
                                   /\ UNCHANGED <<tzLookups, tzFound, local_tz>>
                              ELSE \E found \in TzLookupResults :
                                     LET coord == TimezoneCoord(city, r.coordinates)
                                         name == timezone_str(found)
                                         tz == LocalTz(name)
                                     IN  /\ tzLookups' = <<coord>>
                                         /\ tzFound' = found
                                         /\ local_tz' = tz
                                         /\ response' =
                                              WeatherResponse(
                                                LocalizeFrom(ToRecords(out.df), tz, 1),
                                                name)
    /\ UNCHANGED <<geocodes>>
    /\ UNCHANGED <<now>>
    /\ UNCHANGED startupVars

\* the response is sent: nothing of the request is kept
Deliver ==
    /\ request # NoRequest
    /\ request' = NoRequest
    /\ response' = NoResponse
    /\ fetches' = <<>>
    /\ provided' = NoOutcome
    /\ tzLookups' = <<>>
    /\ tzFound' = Unbound
    /\ local_tz' = Unbound
    /\ geocodes' = <<>>
    /\ UNCHANGED <<now>>
    /\ UNCHANGED startupVars

\* time passes between requests
Tick ==
    /\ proc = "serving"
    /\ request = NoRequest
    /\ \E t \in ClockSamples : Before(now, t) /\ now' = t
    /\ UNCHANGED requestVars
    /\ UNCHANGED startupVars

Next == GetCities \/ SearchCity \/ GetWeather \/ Deliver \/ Tick

Spec == Init /\ [][Next]_vars

NextStartup == ExecStatement

SpecStartup == InitStartup /\ [][NextStartup]_vars

----------------------------------------------------------------------------
(* Properties                                                              *)

\* what the registry holds for a city name, Bloomington's entry for any other
StoredCoordinate(name) ==
    IF name \in DOMAIN cities THEN cities[name] ELSE cities["Bloomington"]

Given(arg) == arg # None /\ arg # ""

\* C1: a /weather request resolves its input first match wins. With a city
\* name the registry coordinate is fetched whatever lat and lon hold; without
\* one and with lat and lon the coordinate branch decides; with neither the
\* request ends 400 with an error field and nothing is fetched.
C1_InputResolution ==
    request.route = "/weather" =>
        IF Given(request.city)
          THEN /\ Len(fetches) = 1
               /\ fetches[1].coordinates = <<StoredCoordinate(request.city)>>
               /\ response.status # 400
        ELSE IF Given(request.lat) /\ Given(request.lon)
          THEN /\ response.error # "City or coordinates required"
               /\ \/ /\ response.status = 400
                     /\ fetches = <<>>
                  \/ /\ Len(fetches) = 1
                     /\ request.lat \in DOMAIN FloatTable
                     /\ request.lon \in DOMAIN FloatTable
                     /\ fetches[1].coordinates =
                          << <<FloatTable[request.lat], FloatTable[request.lon]>> >>
        ELSE /\ response.status = 400
             /\ response.kind = "error"
             /\ fetches = <<>>

\* C1: a city name together with a non-numeric lat has fetched the city
C1_Witness ==
    /\ request.route = "/weather"
    /\ request.city = "Chicago"
    /\ request.lat = "abc"
    /\ request.lon = "200"
    /\ Len(fetches) = 1
    /\ fetches[1].coordinates = <<cities["Chicago"]>>

\* C2: when the provider call raises, the request ends 500 with the
\* exception's text as the error field, after exactly one call, with no
\* readings, no timezone lookup and no localization.
C2_ProviderFailureIsFinal ==
    /\ Len(fetches) <= 1
    /\ (request.route = "/weather" /\ provided.exc # NoException) =>
          /\ response.status = 500
          /\ response.kind = "error"
          /\ response.error = provided.exc.message
          /\ Len(fetches) = 1
          /\ response.weather_data = <<>>
          /\ tzLookups = <<>>
          /\ tzFound = Unbound
          /\ local_tz = Unbound

\* C2: the provider has refused the credentials
C2_Witness ==
    /\ request.route = "/weather"
    /\ provided.exc.type = "Unauthorized"
    /\ response.status = 500
    /\ response.error = "401 Unauthorized"

\* C3: the timezone field of a weather response names the zone the readings
\* were converted with, and is "UTC" when the lookup returned nothing or an
\* identifier pytz does not know.
C3_TimezoneFieldIsZoneUsed ==
    response.kind = "weather" =>
        /\ response.status = 200
        /\ response.timezone = local_tz
        /\ (~Given(tzFound) \/ tzFound \notin DOMAIN ZoneOffset) =>
              (response.timezone = "UTC" /\ local_tz = "UTC")

\* the index cell of row i cannot become a local timestamp in zone tz
BadRow(df, i, tz) ==
    \/ df.index # "validdate"
    \/ df.rows[i].idx.type # "str"
    \/ df.rows[i].idx.form # "iso"
    \/ df.rows[i].idx.wall + ZoneOffset[tz] < 0

\* C4: localization is per row. A row without a validdate, with an empty one
\* or with one that does not parse or convert gets validdate None; any other
\* row gets its own wall time shifted by the zone's offset, whatever the other
\* rows hold; the response is 200 with the rows in the provider's order and
\* every other field as the provider gave it.
C4_PerRowLocalization ==
    response.kind = "weather" =>
        /\ response.status = 200
        /\ Len(response.weather_data) = Len(provided.df.rows)
        /\ \A i \in 1..Len(provided.df.rows) :
             LET raw == provided.df.rows[i]
                 out == response.weather_data[i]
             IN  /\ DOMAIN out = {"validdate", "t_2m", provided.df.index}
                 /\ out["t_2m"] = raw.t_2m
                 /\ provided.df.index # "validdate" => out[provided.df.index] = raw.idx
                 /\ out["validdate"] =
                      IF BadRow(provided.df, i, local_tz)
                        THEN PyNone
                        ELSE [type |-> "str", form |-> "iso",
                              wall |-> raw.idx.wall + ZoneOffset[local_tz],
                              off |-> OffsetText[ZoneOffset[local_tz]]]

\* C4: an unparsable row first, a converted row after it
C4_Witness ==
    /\ response.kind = "weather"
    /\ provided.df.index = "validdate"
    /\ Len(provided.df.rows) = 2
    /\ provided.df.rows[1].idx.form = "garbage"
    /\ response.weather_data[1]["validdate"] = PyNone
    /\ local_tz = "America/Chicago"
    /\ response.weather_data[2]["validdate"] = Str("iso", 6, "-06:00")

\* C5: with a city name the stored coordinate (Bloomington's for a name the
\* registry does not hold) is what is fetched, the name itself never gives an
\* error, and when the provider answers the response is 200 with the timezone
\* looked up for that same coordinate.
C5_CityPath ==
    (request.route = "/weather" /\ Given(request.city)) =>
        /\ Len(fetches) = 1
        /\ fetches[1].coordinates = <<StoredCoordinate(request.city)>>
        /\ provided.ok =>
              /\ response.status = 200
              /\ tzLookups = fetches[1].coordinates
              /\ response.timezone = IF Given(tzFound) THEN tzFound ELSE "UTC"
        /\ ~provided.ok => (response.status = 500 /\ provided.exc # NoException)

\* C5: an unknown city has been answered with Bloomington's timezone
C5_Witness ==
    /\ request.route = "/weather"
    /\ request.city = "Atlantis"
    /\ response.status = 200
    /\ fetches[1].coordinates = <<cities["Bloomington"]>>
    /\ tzLookups = <<cities["Bloomington"]>>
    /\ response.timezone = "America/Indiana/Indianapolis"

\* C6: without a city and with lat and lon, two numeric strings are fetched
\* as the coordinate (lat, lon) they parse to; otherwise the request ends 400
\* {error: "Invalid latitude or longitude"} and nothing is fetched.
C6_CoordinatePath ==
    (/\ request.route = "/weather"
     /\ ~Given(request.city)
     /\ Given(request.lat)
     /\ Given(request.lon)) =>
        IF request.lat \in DOMAIN FloatTable /\ request.lon \in DOMAIN FloatTable
          THEN /\ Len(fetches) = 1
               /\ fetches[1].coordinates =
                    << <<FloatTable[request.lat], FloatTable[request.lon]>> >>
          ELSE /\ response.status = 400
               /\ response.kind = "error"
               /\ response.error = "Invalid latitude or longitude"
               /\ fetches = <<>>

\* C6: a numeric pair has been fetched as parsed
C6_Witness ==
    /\ request.route = "/weather"
    /\ request.city = None
    /\ request.lat = "41.5"
    /\ request.lon = "-87.5"
    /\ fetches[1].coordinates = << <<41500000, -87500000>> >>

\* C6: a non-numeric latitude has been refused
C6_WitnessInvalid ==
    /\ request.route = "/weather"
    /\ request.city = ""
    /\ request.lat = "abc"
    /\ request.lon = "-87.5"
    /\ response.status = 400

\* C7: the module body never ends in an exception when the credentials are
\* absent or invalid: the process goes on to serve.
C7_StartsWithoutCredentials ==
    ~ValidCredentials(environ["METEOMATICS_USERNAME"],
                      environ["METEOMATICS_PASSWORD"])
        => proc # "crashed"

\* C8: a /search request calls the geocoder once and ends 200 with the match,
\* 404 with an error field or 503 with an error field.
C8_SearchOutcomes ==
    request.route = "/search" =>
        /\ Len(geocodes) = 1
        /\ \/ response.status = 200 /\ response.kind = "location"
           \/ response.status = 404 /\ response.kind = "error"
           \/ response.status = 503 /\ response.kind = "error"

InRange(coord) ==
    /\ coord[1] >= -90000000 /\ coord[1] <= 90000000
    /\ coord[2] >= -180000000 /\ coord[2] <= 180000000

\* C9: every coordinate passed to the fetch or to the timezone lookup has
\* lat in [-90, 90] and lon in [-180, 180].
C9_CoordinatesInRange ==
    /\ \A i \in 1..Len(fetches) :
          \A k \in 1..Len(fetches[i].coordinates) : InRange(fetches[i].coordinates[k])
    /\ \A i \in 1..Len(tzLookups) : InRange(tzLookups[i])

\* C10: a fetch carries one coordinate, the fixed parameters and the window
\* of the current hour: start is the clock with minute, second and
\* microsecond zero, end is start plus 24 hours, the step is one hour.
C10_FetchWindow ==
    \A i \in 1..Len(fetches) :
        LET call == fetches[i]
        IN  /\ Len(call.coordinates) = 1
            /\ call.parameters =
                 <<"t_2m:C", "precip_1h:mm", "wind_speed_10m:ms",
                   "relative_humidity_2m:p", "uv:idx">>
            /\ call.startdate.minute = 0
            /\ call.startdate.second = 0
            /\ call.startdate.microsecond = 0
            /\ call.startdate.day = now.day
            /\ call.startdate.hour = now.hour
            /\ Seconds(call.enddate) - Seconds(call.startdate) = 24 * 3600
            /\ call.enddate.microsecond = call.startdate.microsecond
            /\ call.interval.days = 0
            /\ call.interval.seconds = 3600

\* C10: a fetch made one microsecond before midnight
C10_Witness ==
    /\ Len(fetches) = 1
    /\ now = Datetime(0, 23, 59, 59, 999999)
    /\ fetches[1].startdate = Datetime(0, 23, 0, 0, 0)
    /\ fetches[1].enddate = Datetime(1, 23, 0, 0, 0)

====
